---- MODULE Spec2Model ----
(***************************************************************************)
(* Model of the geospatial analytics backend: the request handlers of      *)
(* backend/app.py (POST /api/analyze, POST /api/chat) and the analysis     *)
(* pipeline of backend/geospatial_analysis.py (start_automation and the    *)
(* stages it calls).  The remote imagery platform and the text-generation  *)
(* service are environments whose answers are drawn with \E.               *)
(*                                                                         *)
(* Text is modelled so that parsing is real work: a cloudPercentage value  *)
(* and a chat message are sequences of characters, an indices value is a   *)
(* sequence of JSON tokens, and an error text is the sequence of the parts *)
(* the f-strings concatenate.                                              *)
(***************************************************************************)
EXTENDS Integers, Sequences, FiniteSets, TLC

VARIABLES
    pc,                 \* position of the single-threaded server
    req,                \* the request being handled
    resp,               \* the response returned for it
    log,                \* the calls made while handling it, in order
    fault,              \* whether the environment (disk, configuration,
                        \* platform availability) failed while handling it
    cloud_percentage,   \* analyze(): int(cloud_percentage)
    indices,            \* analyze(): json.loads(indices)
    collection,         \* start_automation(): the filtered image collection
    band_map,           \* start_automation(): the satellite's band names
    time_series_stats,  \* start_automation(): compute_time_series_stats(...)
    scanned,            \* get_latest_image(): coverage obtained per scanned date
    latest_image,       \* start_automation(): get_latest_image(...)
    stats,              \* start_automation(): compute_stats(...), its keys
    vis_urls,           \* start_automation(): get_visualization_urls(...), its keys
    service             \* chat(): what requests.post met at the service

vars == <<pc, req, resp, log, fault, cloud_percentage, indices, collection, band_map,
          time_series_stats, scanned, latest_image, stats, vis_urls, service>>

locals == <<cloud_percentage, indices, collection, band_map,
            time_series_stats, scanned, latest_image, stats, vis_urls>>

-----------------------------------------------------------------------------
(* Bounds of the model                                                     *)

\* Acquisition time slots of the platform's archive: 1..MaxTime.
MaxTime == 4

-----------------------------------------------------------------------------
(* Python text and values                                                  *)

Digits == <<"0", "1", "2", "3", "4", "5", "6", "7", "8", "9">>

IsDigit(c) == \E d \in 1..10 : Digits[d] = c

DigitVal(c) == (CHOOSE d \in 1..10 : Digits[d] = c) - 1

RECURSIVE DigitsValue(_)
DigitsValue(s) ==
    IF s = << >> THEN 0
    ELSE 10 * DigitsValue(SubSeq(s, 1, Len(s) - 1)) + DigitVal(s[Len(s)])

\* int(text) of a str: an optional sign, then one or more decimal digits;
\* anything else raises ValueError (ok = FALSE).
PyInt(s) ==
    LET signed == s # << >> /\ s[1] \in {"+", "-"}
        body   == IF signed THEN Tail(s) ELSE s
        ok     == body # << >> /\ \A i \in 1..Len(body) : IsDigit(body[i])
    IN  [ok    |-> ok,
         value |-> IF ~ok THEN 0
                   ELSE IF signed /\ s[1] = "-" THEN 0 - DigitsValue(body)
                   ELSE DigitsValue(body)]

Whitespace == {" ", "\t", "\n"}

RECURSIVE LStrip(_)
LStrip(s) == IF s # << >> /\ s[1] \in Whitespace THEN LStrip(Tail(s)) ELSE s

RECURSIVE RStrip(_)
RStrip(s) ==
    IF s # << >> /\ s[Len(s)] \in Whitespace
    THEN RStrip(SubSeq(s, 1, Len(s) - 1)) ELSE s

\* A mutant of Strip: nothing is stripped.
StripNothing(s) == s

\* str.strip()
Strip(s) == RStrip(LStrip(s))

\* str.lower() on the names the requests use.
Lower(s) ==
    CASE s = "Landsat8"  -> "landsat8"
      [] s = "SENTINEL2" -> "sentinel2"
      [] s = ".GeoJSON"  -> ".geojson"
      [] s = ".JSON"     -> ".json"
      [] s = ".TIF"      -> ".tif"
      [] OTHER           -> s

\* The characters of the strings a request can name as an index.
Chars(s) ==
    CASE s = "NDVI" -> <<"N", "D", "V", "I">>
      [] s = "NDWI" -> <<"N", "D", "W", "I">>
      [] s = "SAVI" -> <<"S", "A", "V", "I">>
      [] s = "EVI"  -> <<"E", "V", "I">>
      [] s = "LAI"  -> <<"L", "A", "I">>
      [] OTHER      -> <<s>>

(* JSON text is a sequence of tokens [t, v]: t is "str" (a quoted string),  *)
(* "num" (a number), "punct" (one of [ ] { } ,) or "word" (bare text).     *)
Str(s)   == [t |-> "str", v |-> s]
Num(s)   == [t |-> "num", v |-> s]
Punct(s) == [t |-> "punct", v |-> s]
Word(s)  == [t |-> "word", v |-> s]

IsScalar(tok) == tok.t \in {"str", "num"}

\* The elements between the brackets: value (, value)*  or nothing.
IsElementList(toks) ==
    \/ toks = << >>
    \/ /\ Len(toks) % 2 = 1
       /\ \A i \in 1..Len(toks) :
            IF i % 2 = 1 THEN IsScalar(toks[i]) ELSE toks[i] = Punct(",")

Elements(toks) ==
    [i \in 1..((Len(toks) + 1) \div 2) |-> toks[2 * i - 1]]

\* json.loads(text): a scalar, an array of scalars or the empty object;
\* any other text raises JSONDecodeError, a ValueError (ok = FALSE).
JsonLoads(toks) ==
    LET n == Len(toks)
    IN  IF n = 1 /\ IsScalar(toks[1])
        THEN [ok |-> TRUE, type |-> toks[1].t, items |-> <<toks[1]>>]
        ELSE IF /\ n >= 2
                /\ toks[1] = Punct("[")
                /\ toks[n] = Punct("]")
                /\ IsElementList(SubSeq(toks, 2, n - 1))
        THEN [ok |-> TRUE, type |-> "array",
              items |-> Elements(SubSeq(toks, 2, n - 1))]
        ELSE IF toks = <<Punct("{"), Punct("}")>>
        THEN [ok |-> TRUE, type |-> "object", items |-> << >>]
        ELSE [ok |-> FALSE, type |-> "error", items |-> << >>]

\* The inverse used to write requests: json.dumps of a list of strings.
RECURSIVE JoinTokens(_)
JoinTokens(names) ==
    IF names = << >> THEN << >>
    ELSE IF Len(names) = 1 THEN <<Str(names[1])>>
    ELSE <<Str(names[1]), Punct(",")>> \o JoinTokens(Tail(names))

JsonArray(names) == <<Punct("[")>> \o JoinTokens(names) \o <<Punct("]")>>

(* Python's view of a parsed JSON value (ok, type, items).                 *)

\* `for band in value`: the names iterated, or TypeError for a number.
PyIterable(value) == value.type # "num"

PyIter(value) ==
    CASE value.type = "array" -> [i \in 1..Len(value.items) |-> value.items[i].v]
      [] value.type = "str"   -> Chars(value.items[1].v)
      [] OTHER                -> << >>

IsSubstring(x, s) ==
    \E k \in 0..Len(s) :
        k + Len(x) <= Len(s) /\ SubSeq(s, k + 1, k + Len(x)) = x

\* `name in value` for a str name; TypeError for a number (see PyIterable).
PyIn(name, value) ==
    CASE value.type = "array" -> \E i \in 1..Len(value.items) :
                                     value.items[i] = Str(name)
      [] value.type = "str"   -> IsSubstring(Chars(name), Chars(value.items[1].v))
      [] OTHER                -> FALSE

Range(s) == {s[i] : i \in 1..Len(s)}

\* Whether `part` occurs in an error text (a sequence of parts).
Contains(text, part) == \E i \in 1..Len(text) : text[i] = part

-----------------------------------------------------------------------------
(* Requests                                                                *)

\* A form field: request.form.get(name) is None when the field is absent.
Absent      == [present |-> FALSE, text |-> ""]
Text(s)     == [present |-> TRUE, text |-> s]
AbsentSeq   == [present |-> FALSE, text |-> << >>]

\* The file part: request.files['file'] and its filename = root + ext.
NoFilePart  == [present |-> FALSE, root |-> "", ext |-> ""]
File(r, e)  == [present |-> TRUE, root |-> r, ext |-> e]

Files ==
    {NoFilePart, File("", ""), File("aoi", ".geojson"), File("aoi", ".JSON"),
     File("scene", ".tif")}

DateTexts == {Absent, Text(""), Text("2024-01-01")}

SatelliteTexts ==
    {Absent, Text(""), Text("sentinel2"), Text("Landsat8"), Text("modis")}

CloudTexts ==
    {AbsentSeq, Text(<< >>), Text(<<"2", "0">>), Text(<<"1", "5", "0">>),
     Text(<<"a", "b", "c">>), Text(<<"1", "2", ".", "5">>)}

INDICES == <<"NDVI", "NDWI", "SAVI", "EVI">>

\* The names of `names` (a sequence) that are in the set S, in order.
RECURSIVE Pick(_, _)
Pick(names, S) ==
    IF names = << >> THEN << >>
    ELSE (IF names[1] \in S THEN <<names[1]>> ELSE << >>) \o Pick(Tail(names), S)

IndicesTexts ==
    {AbsentSeq, Text(<< >>)}
    \cup {Text(JsonArray(Pick(INDICES, S))) : S \in SUBSET Range(INDICES)}
    \cup {Text(JsonArray(<<"NDVI", "NDVI">>)),          \* a repeated index
          Text(JsonArray(<<"LAI">>)),                   \* an unknown index
          Text(<<Str("NDVI")>>),                        \* a JSON string
          Text(<<Num("5")>>),                           \* a JSON number
          Text(<<Punct("{"), Punct("}")>>),             \* a JSON object
          Text(<<Word("NDVI")>>),                       \* not JSON
          Text(<<Punct("["), Str("NDVI")>>)}            \* not JSON

AnalyzeRequests ==
    [kind : {"analyze"}, file : Files, startDate : DateTexts,
     endDate : DateTexts, satellite : SatelliteTexts,
     cloudPercentage : CloudTexts, indices : IndicesTexts]

\* A chat body: what request.get_json() finds.  json is "object", "null"
\* (the body is the JSON null) or "invalid" (get_json raises); message is
\* the value under 'message': absent, a str (its characters), null or a number.
ChatBody(j, m, s) == [kind |-> "chat", json |-> j, message |-> m, text |-> s]

ChatRequests ==
    {ChatBody("invalid", "absent", << >>), ChatBody("null", "absent", << >>),
     ChatBody("object", "absent", << >>), ChatBody("object", "null", << >>),
     ChatBody("object", "num", << >>), ChatBody("object", "str", << >>),
     ChatBody("object", "str", <<" ">>), ChatBody("object", "str", <<" ", "\t", "\n">>),
     ChatBody("object", "str", <<"h", "i">>), ChatBody("object", "str", <<" ", "h", "i", " ">>),
     ChatBody("object", "str", <<"a", " ", "b">>)}

NoRequest == [kind |-> "none"]

-----------------------------------------------------------------------------
(* Responses                                                               *)

NoResponse == [status |-> 0, body |-> [message |-> << >>]]

\* return jsonify(body), status
Reply(status, body) ==
    /\ resp' = [status |-> status, body |-> body]
    /\ pc' = "done"

NoImage == [kind |-> "none", date |-> 0, time |-> 0, bands |-> {}]
NoBands == [red |-> "", green |-> "", blue |-> "", nir |-> "", swir |-> ""]
NoValue == [ok |-> FALSE, type |-> "error", items |-> << >>]
NoService == [refused |-> FALSE, connect |-> 0, read |-> 0, status |-> 0, json_ok |-> FALSE]

Init ==
    /\ pc = "idle"
    /\ req = NoRequest
    /\ resp = NoResponse
    /\ log = << >>
    /\ fault = FALSE
    /\ cloud_percentage = 0
    /\ indices = NoValue
    /\ collection = {}
    /\ band_map = NoBands
    /\ time_series_stats = << >>
    /\ scanned = << >>
    /\ latest_image = NoImage
    /\ stats = {}
    /\ vis_urls = {}
    /\ service = NoService

-----------------------------------------------------------------------------
(* POST /api/analyze: the handler up to the call of start_automation       *)

\* 'file' in request.files and request.files['file'].filename
HasFile(r) == r.file.present /\ ~(r.file.root = "" /\ r.file.ext = "")

\* bool(x) of a form value: None and '' are false ([] is the default of indices).
Truthy(field) == field.present /\ field.text # ""

\* The same of a value whose text is modelled as a sequence.
TruthySeq(field) == field.present /\ field.text # << >>

\* A mutant of AllFields: indices is not among the required fields.
AllFieldsButIndices(r) ==
    /\ Truthy(r.startDate) /\ Truthy(r.endDate) /\ Truthy(r.satellite)
    /\ TruthySeq(r.cloudPercentage)

\* all([start_date, end_date, satellite, cloud_percentage, indices])
AllFields(r) ==
    /\ Truthy(r.startDate) /\ Truthy(r.endDate) /\ Truthy(r.satellite)
    /\ TruthySeq(r.cloudPercentage) /\ TruthySeq(r.indices)

\* except Exception as e: ... 'Internal server message: {str(e)}', 500
AnalyzeExcept(text) ==
    Reply(500, [message |-> <<"Internal server message: ">> \o text])

\* Lines 28-74 of analyze(): validation, the upload, the call of the pipeline.
\* `disk` is what the file system does with file.save(file_path).
AnalyzeRequest ==
    /\ pc = "idle"
    /\ \E r \in AnalyzeRequests, disk \in {"saved", "missing", "error"} :
        LET cp == PyInt(r.cloudPercentage.text)
            ix == JsonLoads(r.indices.text)
        IN  /\ req' = r
            /\ IF ~HasFile(r)
               THEN /\ Reply(400, [message |-> <<"No file uploaded or invalid file">>,
                                   status |-> 400])
                    /\ UNCHANGED <<log, fault, cloud_percentage, indices>>
               ELSE IF ~AllFields(r)
               THEN /\ Reply(400, [message |-> <<"Missing required form fields">>,
                                   status |-> 400])
                    /\ UNCHANGED <<log, fault, cloud_percentage, indices>>
               ELSE IF ~cp.ok
               THEN /\ Reply(400, [message |-> <<"Invalid form data: ",
                                                 "invalid literal for int() with base 10">>,
                                   status |-> 400])
                    /\ UNCHANGED <<log, fault, cloud_percentage, indices>>
               ELSE IF ~ix.ok
               THEN /\ Reply(400, [message |-> <<"Invalid form data: ",
                                                 "JSONDecodeError">>,
                                   status |-> 400])
                    /\ cloud_percentage' = cp.value
                    /\ UNCHANGED <<log, fault, indices>>
               ELSE /\ cloud_percentage' = cp.value
                    /\ indices' = ix
                    /\ fault' = (disk # "saved")
                    /\ CASE disk = "error" ->
                              /\ AnalyzeExcept(<<"OSError">>)
                              /\ log' = <<"file.save">>
                         [] disk = "missing" ->
                              /\ Reply(500, [message |-> <<"Failed to save uploaded file">>,
                                             status |-> 500])
                              /\ log' = <<"file.save">>
                         [] OTHER ->
                              /\ pc' = "start_automation"
                              /\ log' = <<"file.save", "start_automation">>
                              /\ UNCHANGED resp
    /\ UNCHANGED <<collection, band_map, time_series_stats, scanned,
                   latest_image, stats, vis_urls, service>>

-----------------------------------------------------------------------------
(* The remote imagery platform                                             *)

\* An archived image: its acquisition time slot and its cloud cover (percent).
DateOf(t) == (t \div 2) + 1

\* The cloud cover of the image of a time slot: clear and cloudy alternate.
CloudOf(t) == IF t % 2 = 1 THEN 10 ELSE 50

Image(t) == [time |-> t, cloud |-> CloudOf(t)]

\* What the platform holds for the AOI and the date range: at most one image
\* per time slot; slots 2 and 3 fall on the same date.
Archives == {{Image(t) : t \in T} : T \in SUBSET (1..MaxTime)}

\* Coverage fractions in hundredths; null is the platform's "no value".
Null == [null |-> TRUE, value |-> 0]
Fraction(x) == [null |-> FALSE, value |-> x]
CoverageValues == {Null, Fraction(80), Fraction(95), Fraction(97)}

COVERAGE_THRESHOLD == 95

-----------------------------------------------------------------------------
(* geospatial_analysis.py                                                  *)

\* A raise that reaches analyze()'s except clause.
Raise(text) == AnalyzeExcept(text)

\* start_automation(), lines 247-255: the platform is initialised first.
Initialize ==
    /\ pc = "start_automation"
    /\ \E configured \in BOOLEAN, platform_ok \in BOOLEAN :
        IF ~configured
        THEN /\ Raise(<<"Failed to initialize Earth Engine: ",
                        "Environment variables SERVICE_ACCOUNT_EMAIL or PRIVATE_KEY not set">>)
             /\ fault' = TRUE
             /\ UNCHANGED log
        ELSE /\ log' = Append(log, "ee.Initialize")
             /\ fault' = ~platform_ok
             /\ IF platform_ok
                THEN pc' = "convert_to_ee" /\ UNCHANGED resp
                ELSE Raise(<<"Failed to initialize Earth Engine: ", "EEException">>)
    /\ UNCHANGED <<req, locals, service>>

\* file_extension in ['.geojson', '.json']
SupportedExtension(ext) == ext \in {".geojson", ".json"}

\* convert_to_ee(file_path): builds the geometry client-side (no platform call).
ConvertToEE ==
    /\ pc = "convert_to_ee"
    /\ \E geojson_ok \in BOOLEAN :
        IF SupportedExtension(Lower(req.file.ext))
        THEN /\ fault' = ~geojson_ok
             /\ IF geojson_ok
                THEN pc' = "get_collection" /\ UNCHANGED resp
                ELSE Raise(<<"Failed to convert file to Earth Engine geometry: ",
                             "geojson_to_ee error">>)
        ELSE /\ Raise(<<"Failed to convert file to Earth Engine geometry: ",
                        "Unsupported file format. Supported: .geojson, .json">>)
             /\ UNCHANGED fault
    /\ log' = Append(log, "convert_to_ee")
    /\ UNCHANGED <<req, locals, service>>

SENTINEL2_BANDS ==
    [red |-> "B4", green |-> "B3", blue |-> "B2", nir |-> "B8", swir |-> "B11"]

LANDSAT8_BANDS ==
    [red |-> "SR_B4", green |-> "SR_B3", blue |-> "SR_B2", nir |-> "SR_B5",
     swir |-> "SR_B6"]

\* get_collection(aoi, start_date, end_date, satellite, cloud_perc): the query
\* is built client-side; `archive` is what it denotes on the platform.
GetCollection ==
    /\ pc = "get_collection"
    /\ \E archive \in Archives :
        LET satellite == Lower(req.satellite.text)
        IN  CASE satellite = "sentinel2" ->
                   /\ collection' = {img \in archive : img.cloud <= cloud_percentage}
                   /\ band_map' = SENTINEL2_BANDS
                   /\ pc' = "compute_time_series_stats"
                   /\ UNCHANGED resp
              [] satellite = "landsat8" ->
                   /\ collection' = archive
                   /\ band_map' = LANDSAT8_BANDS
                   /\ pc' = "compute_time_series_stats"
                   /\ UNCHANGED resp
              [] OTHER ->
                   /\ Raise(<<"Unsupported satellite. Use: sentinel2, landsat8">>)
                   /\ UNCHANGED <<collection, band_map>>
    /\ log' = Append(log, "get_collection")
    /\ UNCHANGED <<req, fault, cloud_percentage, indices, time_series_stats, scanned,
                   latest_image, stats, vis_urls, service>>

\* The bands of a scaled image that the pipeline names.
NativeBands(bm) == {bm.red, bm.green, bm.blue, bm.nir, bm.swir}

\* add_indices(image, band_map, indices): one band per index named in indices.
AddIndices(bands, ix) == bands \cup {x \in Range(INDICES) : PyIn(x, ix)}

\* The images of a collection in the platform's order (by acquisition time).
RECURSIVE InTimeOrder(_)
InTimeOrder(images) ==
    IF images = {} THEN << >>
    ELSE LET first == CHOOSE i \in images : \A j \in images : i.time <= j.time
         IN  <<first>> \o InTimeOrder(images \ {first})

\* A mutant of StatKeys: the default argument, all four indices, is used.
StatKeysOfAll(ix) ==
    {<<"date">>} \cup {<<s, b>> : s \in {"mean", "min", "max"}, b \in Range(INDICES)}

\* process_image(): the properties of one feature, f"mean_{band}" as <<"mean", band>>.
StatKeys(ix) ==
    {<<"date">>} \cup {<<s, b>> : s \in {"mean", "min", "max"}, b \in Range(PyIter(ix))}

\* compute_time_series_stats(collection, aoi, scale, band_map, indices)
ComputeTimeSeriesStats ==
    /\ pc = "compute_time_series_stats"
    /\ \E platform_ok \in BOOLEAN :
        IF ~PyIterable(indices)
        THEN \* `"NDVI" in indices` raises TypeError while the map is built
             /\ Raise(<<"Failed to compute time-series stats: ", "TypeError">>)
             /\ UNCHANGED <<log, fault, time_series_stats>>
        ELSE LET bands  == AddIndices(NativeBands(band_map), indices)
                 images == InTimeOrder(collection)
                 \* image.select(band) of every mapped image
                 selectable == \/ collection = {}
                               \/ Range(PyIter(indices)) \subseteq bands
             IN  /\ log' = Append(log, "getInfo:time_series")
                 /\ fault' = ~platform_ok
                 /\ IF platform_ok /\ selectable
                    THEN /\ time_series_stats' =
                               [i \in 1..Len(images) |->
                                   [date |-> DateOf(images[i].time),
                                    keys |-> StatKeys(indices)]]
                         /\ pc' = "get_latest_image"
                         /\ UNCHANGED resp
                    ELSE /\ Raise(<<"Failed to compute time-series stats: ",
                                    "EEException">>)
                         /\ UNCHANGED time_series_stats
    /\ UNCHANGED <<req, cloud_percentage, indices, collection, band_map, scanned,
                   latest_image, stats, vis_urls, service>>

\* The distinct acquisition dates of a collection.
UniqueDates(images) == {DateOf(i.time) : i \in images}

\* ee.List(dates.distinct()).sort().reverse(): newest first.
RECURSIVE Descending(_)
Descending(S) ==
    IF S = {} THEN << >>
    ELSE LET greatest == CHOOSE x \in S : \A y \in S : x >= y
         IN  <<greatest>> \o Descending(S \ {greatest})

\* collection.filterDate(date, date.advance(1, 'day'))
Daily(images, date) == {i \in images : DateOf(i.time) = date}

\* A mutant of Covered: the threshold itself does not qualify.
CoveredStrictly(c) == ~c.null /\ c.value > COVERAGE_THRESHOLD

\* coverage is not None and coverage >= 0.95
Covered(c) == ~c.null /\ c.value >= COVERAGE_THRESHOLD

\* The loop over unique_dates: the index of the date it returns at, or 0 when
\* it runs to the end.  cov[d] is the platform's coverage_fraction for date d.
RECURSIVE ScanFrom(_, _, _, _)
ScanFrom(i, dates, images, cov) ==
    IF i > Len(dates) THEN 0
    ELSE IF Cardinality(Daily(images, dates[i])) = 0
    THEN ScanFrom(i + 1, dates, images, cov)
    ELSE IF Covered(cov[dates[i]]) THEN i
    ELSE ScanFrom(i + 1, dates, images, cov)

\* Python's None, and the client-side image objects of the platform library.
PyNone == [kind |-> "None", date |-> 0, time |-> 0, bands |-> {}]

Mosaic(date, bands) ==
    [kind |-> "mosaic", date |-> date, time |-> 0, bands |-> bands]

\* collection.sort('system:time_start', False).first(): always an image
\* object; over an empty collection it denotes the platform's null.
SortFirst(images, bands) ==
    IF images = {}
    THEN [kind |-> "null", date |-> 0, time |-> 0, bands |-> {}]
    ELSE LET i == CHOOSE i \in images : \A j \in images : i.time >= j.time
         IN  [kind |-> "image", date |-> DateOf(i.time), time |-> i.time,
              bands |-> bands]

\* get_latest_image(collection, band_map, indices, aoi=region)
GetLatestImage ==
    /\ pc = "get_latest_image"
    /\ \E cov \in [UniqueDates(collection) -> CoverageValues],
          platform_ok \in BOOLEAN :
        LET unique_dates == Descending(UniqueDates(collection))
            hit    == ScanFrom(1, unique_dates, collection, cov)
            looked == IF hit = 0 THEN unique_dates
                      ELSE SubSeq(unique_dates, 1, hit)
            native == NativeBands(band_map)
            latest == SortFirst(collection, native)
        IN  IF ~platform_ok
            THEN /\ Raise(<<"Failed to retrieve latest image: ", "EEException">>)
                 /\ log' = Append(log, "getInfo:unique_dates")
                 /\ fault' = TRUE
                 /\ UNCHANGED <<scanned, latest_image>>
            ELSE /\ UNCHANGED fault
                 /\ log' = log \o <<"getInfo:unique_dates">>
                           \o [i \in 1..Len(looked) |-> "getInfo:coverage"]
                 /\ scanned' = [d \in Range(looked) |-> cov[d]]
                 /\ IF hit # 0
                    THEN /\ latest_image' =
                               [Mosaic(unique_dates[hit], native)
                                   EXCEPT !.bands = AddIndices(native, indices)]
                         /\ pc' = "compute_stats"
                         /\ UNCHANGED resp
                    ELSE IF latest = PyNone
                    THEN /\ Raise(<<"Failed to retrieve latest image: ",
                                    "No images found in the collection for the specified criteria.">>)
                         /\ UNCHANGED latest_image
                    ELSE /\ latest_image' =
                               [latest EXCEPT !.bands =
                                   IF latest.kind = "null" THEN {}
                                   ELSE AddIndices(native, indices)]
                         /\ pc' = "compute_stats"
                         /\ UNCHANGED resp
    /\ UNCHANGED <<req, cloud_percentage, indices, collection, band_map,
                   time_series_stats, stats, vis_urls, service>>

\* compute_stats(image, aoi, scale, indices): the keys of the summary.
SummaryKeys(ix) ==
    {<<"mean", b>> : b \in Range(PyIter(ix))}
    \cup {<<"veg_cover_percent">>, <<"total_area_km2">>, <<"healthy_area_km2">>}

\* compute_stats: every reduction over the image is a platform call that
\* fails on the null image or on a band the image does not have; the area
\* of the AOI does not read the image.
ComputeStats ==
    /\ pc = "compute_stats"
    /\ \E platform_ok \in BOOLEAN :
        LET names      == Range(PyIter(indices))
            reads      == names # {} \/ PyIn("NDVI", indices)
            computable == \/ ~reads
                          \/ latest_image.kind # "null" /\ names \subseteq latest_image.bands
        IN  /\ log' = Append(log, "getInfo:stats")
            /\ fault' = ~platform_ok
            /\ IF platform_ok /\ computable
               THEN /\ stats' = SummaryKeys(indices)
                    /\ pc' = "get_visualization_urls"
                    /\ UNCHANGED resp
               ELSE /\ Raise(<<"Failed to compute stats: ", "EEException">>)
                    /\ UNCHANGED stats
    /\ UNCHANGED <<req, cloud_percentage, indices, collection, band_map,
                   time_series_stats, scanned, latest_image, vis_urls, service>>

\* get_visualization_urls: vis_urls has 'rgb' and one key per index.
LayerNames(ix) == {"rgb"} \cup Range(PyIter(ix))

\* get_visualization_urls(image, band_map, indices): getMapId per layer.  On
\* the null image the platform may or may not refuse the map (platform_ok).
GetVisualizationUrls ==
    /\ pc = "get_visualization_urls"
    /\ \E platform_ok \in BOOLEAN :
        LET renderable == \/ latest_image.kind = "null"
                          \/ Range(PyIter(indices)) \subseteq latest_image.bands
        IN  /\ log' = Append(log, "getMapId")
            /\ fault' = (~platform_ok /\ latest_image.kind # "null")
            /\ IF platform_ok /\ renderable
               THEN /\ vis_urls' = LayerNames(indices)
                    /\ pc' = "return"
                    /\ UNCHANGED resp
               ELSE /\ Raise(<<"Failed to generate visualization URLs: ",
                               "EEException">>)
                    /\ UNCHANGED vis_urls
    /\ UNCHANGED <<req, cloud_percentage, indices, collection, band_map,
                   time_series_stats, scanned, latest_image, stats, service>>

\* start_automation() returns json.dumps(output); analyze() loads it and
\* replies 200 (lines 76-82).
AnalyzeReturn ==
    /\ pc = "return"
    /\ Reply(200, [message |-> <<"Analysis complete">>,
                   data    |-> [time_series   |-> time_series_stats,
                                stats         |-> stats,
                                visualization |-> vis_urls],
                   status  |-> 200])
    /\ UNCHANGED <<req, log, fault, locals, service>>

-----------------------------------------------------------------------------
(* POST /api/chat                                                          *)

\* requests.post(ollama_url, json=payload, timeout=30)
TIMEOUT == 30

\* How long the service takes to accept the connection and to reply.
Delays == {1, TIMEOUT + 1}

ServiceOutcomes ==
    [refused : BOOLEAN, connect : Delays, read : Delays,
     status : {200, 404, 500}, json_ok : BOOLEAN]

\* The classes of the exceptions of the requests library (each with its bases).
ConnectionError == {"ConnectionError", "RequestException", "Exception"}
ConnectTimeout ==
    {"ConnectTimeout", "ConnectionError", "Timeout", "RequestException", "Exception"}
ReadTimeout == {"ReadTimeout", "Timeout", "RequestException", "Exception"}
JSONDecodeError == {"JSONDecodeError", "RequestException", "Exception"}
AttributeError == {"AttributeError", "Exception"}
BadRequest == {"BadRequest", "HTTPException", "Exception"}

\* What requests.post raises ({} when it returns a response): the timeout
\* bounds the connection phase and the wait for the reply separately.
PostRaises(svc) ==
    IF svc.refused THEN ConnectionError
    ELSE IF svc.connect > TIMEOUT THEN ConnectTimeout
    ELSE IF svc.read > TIMEOUT THEN ReadTimeout
    ELSE {}

\* The except clauses of chat(), lines 159-175, tried in order.
ChatExcept(classes) ==
    IF "ConnectionError" \in classes
    THEN Reply(503, [message |-> <<"Cannot connect to Ollama. Please ensure Ollama is running with llama3.1 model.">>,
                     status |-> 503])
    ELSE IF "Timeout" \in classes
    THEN Reply(504, [message |-> <<"AI response timeout. Please try again.">>,
                     status |-> 504])
    ELSE Reply(500, [message |-> <<"Internal server error: ">>
                                   \o <<CHOOSE c \in classes : c # "Exception">>,
                     status |-> 500])

\* chat(), lines 96-101: the message is read and checked.
ChatRequest ==
    /\ pc = "idle"
    /\ \E r \in ChatRequests :
        /\ req' = r
        /\ IF r.json = "invalid" THEN ChatExcept(BadRequest)
           ELSE IF r.json = "null" THEN ChatExcept(AttributeError)
           ELSE IF r.message \in {"null", "num"} THEN ChatExcept(AttributeError)
           ELSE LET user_message ==
                        Strip(IF r.message = "absent" THEN << >> ELSE r.text)
                IN  IF user_message = << >>
                    THEN Reply(400, [message |-> <<"No message provided">>,
                                     status |-> 400])
                    ELSE pc' = "requests.post" /\ UNCHANGED resp
    /\ UNCHANGED <<log, fault, locals, service>>

\* chat(), lines 142-157: the call of the text-generation service.
ChatPost ==
    /\ pc = "requests.post"
    /\ \E svc \in ServiceOutcomes :
        /\ service' = svc
        /\ log' = Append(log, "requests.post")
        /\ fault' = (PostRaises(svc) # {} \/ svc.status # 200 \/ ~svc.json_ok)
        /\ IF PostRaises(svc) # {} THEN ChatExcept(PostRaises(svc))
           ELSE IF svc.status = 200
           THEN IF svc.json_ok
                THEN Reply(200, [message |-> <<"Success">>, response |-> "text",
                                 status |-> 200])
                ELSE ChatExcept(JSONDecodeError)
           ELSE Reply(500, [message |-> <<"Failed to get response from AI">>,
                            status |-> 500])
    /\ UNCHANGED <<req, locals>>

-----------------------------------------------------------------------------
(* The server                                                              *)

\* The response is sent and the handler's frame is gone.
Finish ==
    /\ pc = "done"
    /\ pc' = "idle"
    /\ req' = NoRequest
    /\ resp' = NoResponse
    /\ log' = << >>
    /\ fault' = FALSE
    /\ cloud_percentage' = 0
    /\ indices' = NoValue
    /\ collection' = {}
    /\ band_map' = NoBands
    /\ time_series_stats' = << >>
    /\ scanned' = << >>
    /\ latest_image' = NoImage
    /\ stats' = {}
    /\ vis_urls' = {}
    /\ service' = NoService

Next ==
    \/ AnalyzeRequest
    \/ Initialize
    \/ ConvertToEE
    \/ GetCollection
    \/ ComputeTimeSeriesStats
    \/ GetLatestImage
    \/ ComputeStats
    \/ GetVisualizationUrls
    \/ AnalyzeReturn
    \/ ChatRequest
    \/ ChatPost
    \/ Finish

Spec == Init /\ [][Next]_vars

-----------------------------------------------------------------------------
(* The claims                                                              *)

\* What a claim says of a request, stated on the request itself.
FieldMissing(r) ==
    \/ ~r.startDate.present \/ r.startDate.text = ""
    \/ ~r.endDate.present \/ r.endDate.text = ""
    \/ ~r.satellite.present \/ r.satellite.text = ""
    \/ ~r.cloudPercentage.present \/ Len(r.cloudPercentage.text) = 0
    \/ ~r.indices.present \/ Len(r.indices.text) = 0

FileMissing(r) == ~r.file.present \/ (r.file.root = "" /\ r.file.ext = "")

\* The indices text is a JSON array of strings.
IsStringArray(toks) ==
    LET v == JsonLoads(toks)
    IN  v.ok /\ v.type = "array" /\ \A i \in 1..Len(v.items) : v.items[i].t = "str"

\* The set the indices text requests, when it is a JSON array of strings.
Requested(toks) == {tok.v : tok \in Range(JsonLoads(toks).items)}

\* A request that passes every check of the handler and names known indices.
WellFormed(r) ==
    /\ ~FileMissing(r) /\ ~FieldMissing(r)
    /\ PyInt(r.cloudPercentage.text).ok
    /\ IsStringArray(r.indices.text)
    /\ Requested(r.indices.text) \subseteq Range(INDICES)

PlatformCalls ==
    {"ee.Initialize", "getInfo:time_series", "getInfo:unique_dates",
     "getInfo:coverage", "getInfo:stats", "getMapId"}

Answered == pc = "done" /\ req.kind = "analyze"

\* C1: validation of POST /api/analyze is fail-fast in a fixed order: no file
\* part or an empty filename gets 400 "No file uploaded or invalid file";
\* otherwise an absent or empty field gets 400 "Missing required form fields";
\* otherwise a cloudPercentage that is no integer or indices that are no JSON
\* get 400 "Invalid form data: ..."; in all three cases the response is that
\* of the first failing check and start_automation is never invoked.
C1_FailFastValidation ==
    req.kind = "analyze" =>
        LET unparsable == \/ ~PyInt(req.cloudPercentage.text).ok
                          \/ ~JsonLoads(req.indices.text).ok
            rejected(text) == /\ pc = "done"
                              /\ resp.status = 400
                              /\ resp.body.status = 400
                              /\ resp.body.message[1] = text
                              /\ "start_automation" \notin Range(log)
        IN  /\ FileMissing(req) =>
                rejected("No file uploaded or invalid file")
            /\ (~FileMissing(req) /\ FieldMissing(req)) =>
                rejected("Missing required form fields")
            /\ (~FileMissing(req) /\ ~FieldMissing(req) /\ unparsable) =>
                rejected("Invalid form data: ")

\* C1 witness: a request with a file, without startDate and with a
\* cloudPercentage that is no integer is answered by the field check.
C1_Witness ==
    /\ Answered
    /\ ~FileMissing(req)
    /\ ~req.startDate.present
    /\ req.cloudPercentage.present
    /\ ~PyInt(req.cloudPercentage.text).ok
    /\ resp.status = 400
    /\ resp.body.message = <<"Missing required form fields">>

\* C2: a request with a file and all five fields non-empty whose
\* cloudPercentage is outside 0-100, or whose indices are no JSON array of
\* strings, is answered 400 "Invalid form data: ...", never 500 (stated for
\* the requests with a supported file and satellite during which the
\* environment did not fail).
C2_RangeAndShapeRejected ==
    (/\ Answered /\ ~fault /\ ~FileMissing(req) /\ ~FieldMissing(req)
     /\ Lower(req.file.ext) \in {".geojson", ".json"}
     /\ Lower(req.satellite.text) \in {"sentinel2", "landsat8"}) =>
        LET cp == PyInt(req.cloudPercentage.text)
            outside == cp.ok /\ (cp.value < 0 \/ cp.value > 100)
        IN  (outside \/ ~IsStringArray(req.indices.text)) =>
                /\ resp.status = 400
                /\ resp.body.message[1] = "Invalid form data: "

\* C3: a client input error detected inside the pipeline (an unsupported file
\* extension, an unsupported satellite, of an otherwise valid request) is
\* answered with HTTP 400, not 500.
C3_PipelineInputErrorsAre400 ==
    (/\ Answered /\ WellFormed(req)
     /\ \/ Contains(resp.body.message,
                    "Unsupported file format. Supported: .geojson, .json")
        \/ Contains(resp.body.message,
                    "Unsupported satellite. Use: sentinel2, landsat8"))
    => resp.status = 400

\* C4: a request whose uploaded file has an unsupported extension is rejected
\* before any call to the remote platform is made (authentication included),
\* with "Unsupported file format" in the error text (stated for the requests
\* during which the environment did not fail).
C4_ExtensionRejectedBeforePlatform ==
    (/\ Answered /\ ~fault
     /\ WellFormed(req)
     /\ Lower(req.file.ext) \notin {".geojson", ".json"})
    => /\ Range(log) \cap PlatformCalls = {}
       /\ Contains(resp.body.message,
                   "Unsupported file format. Supported: .geojson, .json")

\* C5: every 4xx and 5xx response body of POST /api/analyze has a message and
\* a status field, and every 200 body is {message: "Analysis complete", data,
\* status: 200} with time_series, stats and visualization in data.
C5_ResponseEnvelope ==
    Answered =>
        /\ resp.status >= 400 => {"message", "status"} \subseteq DOMAIN resp.body
        /\ resp.status = 200 =>
            /\ DOMAIN resp.body = {"message", "data", "status"}
            /\ resp.body.message = <<"Analysis complete">>
            /\ resp.body.status = 200
            /\ DOMAIN resp.body.data = {"time_series", "stats", "visualization"}

\* C6: for a valid request with requested index set S, a subset of {NDVI,
\* NDWI, SAVI, EVI}, every time-series record carries the date plus the mean,
\* min and max of each index of S and of no other, and the visualization
\* mapping has the key rgb plus one key per index of S and nothing else.
C6_ExactlyRequestedIndices ==
    (Answered /\ resp.status = 200 /\ WellFormed(req)) =>
        LET S    == Requested(req.indices.text)
            data == resp.body.data
        IN  /\ \A i \in 1..Len(data.time_series) :
                data.time_series[i].keys =
                    {<<"date">>} \cup
                    {<<"mean", x>> : x \in S} \cup {<<"min", x>> : x \in S}
                    \cup {<<"max", x>> : x \in S}
            /\ data.visualization = {"rgb"} \cup S

\* C6 witness: a 200 response to a request for NDVI and EVI over a collection
\* of several images.
C6_Witness ==
    /\ Answered /\ resp.status = 200 /\ WellFormed(req)
    /\ Requested(req.indices.text) = {"NDVI", "EVI"}
    /\ Len(resp.body.data.time_series) >= 2

\* C7: if the filtered image collection is empty, the pipeline fails with "No
\* images found in the collection for the specified criteria.", raised by the
\* selection of the representative image before summary statistics or
\* visualization are attempted, and the handler returns 500 (stated for the
\* well-formed requests that name an index, during which the environment did
\* not fail).
C7_EmptyCollectionFails ==
    (/\ Answered /\ ~fault /\ WellFormed(req)
     /\ Requested(req.indices.text) # {}
     /\ "getInfo:time_series" \in Range(log)
     /\ collection = {})
    => /\ resp.status = 500
       /\ Contains(resp.body.message,
                   "No images found in the collection for the specified criteria.")
       /\ "getInfo:stats" \notin Range(log)
       /\ "getMapId" \notin Range(log)

Contacted == pc = "done" /\ req.kind = "chat" /\ "requests.post" \in Range(log)

\* C8: POST /api/chat answers 503 whenever the service is unreachable, 504
\* whenever the request exceeds the timeout in any phase of the request, and
\* 500 for every other failure (a non-200 reply included).
C8_ChatFailureCodes ==
    Contacted =>
        LET timed_out == service.connect > TIMEOUT \/ service.read > TIMEOUT
        IN  /\ service.refused => resp.status = 503
            /\ (~service.refused /\ timed_out) => resp.status = 504
            /\ (~service.refused /\ ~timed_out
                    /\ (service.status # 200 \/ ~service.json_ok))
                => resp.status = 500

\* The message is absent or a string of whitespace only.
Blank(r) ==
    /\ r.json = "object"
    /\ \/ r.message = "absent"
       \/ r.message = "str" /\ \A i \in 1..Len(r.text) : r.text[i] \in Whitespace

\* C9: a POST /api/chat request whose message is empty, whitespace-only or
\* absent returns 400 and the text-generation service is never contacted.
C9_BlankMessageRejected ==
    (req.kind = "chat" /\ Blank(req)) =>
        /\ pc = "done"
        /\ resp.status = 400
        /\ "requests.post" \notin Range(log)

\* C9 witness: a message of three whitespace characters is answered 400.
C9_Witness ==
    /\ pc = "done" /\ req.kind = "chat"
    /\ req.message = "str" /\ Len(req.text) = 3 /\ Blank(req)
    /\ resp.status = 400
    /\ log = << >>

\* C10: the representative image is the mosaic of the newest date whose AOI
\* coverage is >= 0.95: the selected date reaches the threshold and every
\* newer date of the collection was scanned and did not; when no date
\* reaches it on a non-empty collection, the single most recent image by
\* acquisition time is selected.
C10_RepresentativeImage ==
    latest_image.kind \in {"mosaic", "image"} =>
        LET dates == {(i.time \div 2) + 1 : i \in collection}
            reaches(d) == /\ d \in DOMAIN scanned
                          /\ ~scanned[d].null /\ scanned[d].value >= 95
            below(d)   == /\ d \in DOMAIN scanned
                          /\ (scanned[d].null \/ scanned[d].value < 95)
        IN  /\ latest_image.kind = "mosaic" =>
                /\ latest_image.date \in dates
                /\ reaches(latest_image.date)
                /\ \A d \in dates : d > latest_image.date => below(d)
            /\ latest_image.kind = "image" =>
                /\ \A d \in dates : below(d)
                /\ \E i \in collection :
                    /\ i.time = latest_image.time
                    /\ \A j \in collection : j.time <= i.time

\* C10 witness: three dates whose coverage, newest first, is 0.80, 0.97 and
\* not asked for: the mosaic of the second date is selected, not the newest.
C10_Witness ==
    /\ pc = "compute_stats"
    /\ {(i.time \div 2) + 1 : i \in collection} = {1, 2, 3}
    /\ DOMAIN scanned = {2, 3}
    /\ scanned[3] = Fraction(80)
    /\ scanned[2] = Fraction(97)
    /\ latest_image.kind = "mosaic"
    /\ latest_image.date = 2

\* C11: for both supported satellites, every image of the collection that
\* collection selection returns, and so every image that contributes to the
\* time series and to the selection of the representative image, has cloud
\* cover at or below the request's cloudPercentage threshold (stated for the
\* well-formed requests).
C11_CollectionWithinCloudThreshold ==
    (/\ req.kind = "analyze" /\ WellFormed(req)
     /\ "get_collection" \in Range(log)
     /\ Lower(req.satellite.text) \in {"sentinel2", "landsat8"})
    => \A img \in collection :
           img.cloud <= PyInt(req.cloudPercentage.text).value

====
